---- MODULE Spec2Model ----
(***************************************************************************)
(* GirlTalkBot (src/main.py): the meeting-creation dialogue, the calendar  *)
(* fallback of create_calendar_event, registration and deletion.           *)
(*                                                                         *)
(* The Application of run() is built without concurrent updates, so every  *)
(* handler runs to completion before the next update is dispatched: one    *)
(* action per handler.  What the handler cannot control is drawn with \E:  *)
(* the text sent, whether the calendar call raises, whether the store      *)
(* write raises, whether the reply can be delivered, and how long the      *)
(* blocking calendar call takes.                                           *)
(*                                                                         *)
(* Time is counted in hours.  A datetime is a number in 0..DatetimeMax,    *)
(* DatetimeMax standing for datetime.max (year 9999): start_time +         *)
(* timedelta(hours=1) raises OverflowError beyond it.                      *)
(***************************************************************************)
EXTENDS Integers, Sequences, FiniteSets, TLC

\* ---- bounds ----
NumUsers == 2
NumCreators == 1
MaxId == 1
MaxRemote == 1
MaxClock == 1
DatetimeMax == 3
MaxDelay == 1
MaxMeetings == 2
Radix == 2
IsoWidth == 3

\* ---- program constants ----
OneHour == 1
LOCAL_PREFIX == "local_event_"

Users == 1..NumUsers
Creators == 1..NumCreators
MeetingIds == 1..MaxId
Times == 0..DatetimeMax
Texts == {"Book Club", "Tea"}
OneText == {"Tea"}
None == "None"
NoRow == <<>>
ValueError == -1

VARIABLES
    user_data,            \* context.user_data of each user: a dict
    meetings,             \* table meetings, rows in insertion order
    registrations,        \* table registrations, rows in insertion order
    remote_events,        \* ids of the events that exist in the calendar
    gw_seq,               \* last event id the calendar handed out
    clock,                \* datetime.now()
    GOOGLE_CALENDAR_ON,   \* the feature toggle
    calendar_service,     \* self.calendar_service: None or the service
    flow,                 \* per user: texts accepted since the flow began
    registered_once,      \* the (meeting, user) pairs register has accepted
    last                  \* what the last handler did and returned

vars == <<user_data, meetings, registrations, remote_events, gw_seq,
          clock, GOOGLE_CALENDAR_ON, calendar_service, flow, registered_once,
          last>>

\* ---- dicts ----
Get(d, k) == IF k \in DOMAIN d THEN d[k] ELSE None
Put(d, k, v) == [f \in (DOMAIN d) \cup {k} |-> IF f = k THEN v ELSE d[f]]
Pop(d, k) == [f \in (DOMAIN d) \ {k} |-> d[f]]
Truthy(d, k) == k \in DOMAIN d /\ d[k] = TRUE

\* ---- text ----
startswith(s, p) == Len(s) >= Len(p) /\ SubSeq(s, 1, Len(p)) = p

\* Text order of SQLite (BINARY collation): the first differing position
\* decides, and a proper prefix comes first.
TextLess(a, b) ==
    \E k \in 1..Len(b) :
        /\ k <= Len(a) + 1
        /\ \A j \in 1..(k - 1) : a[j] = b[j]
        /\ (k = Len(a) + 1 \/ a[k] < b[k])

\* the fixed-width digits of a datetime, most significant first
RECURSIVE Digits(_, _)
Digits(t, width) ==
    IF width = 0 THEN <<>>
    ELSE Append(Digits(t \div Radix, width - 1), t % Radix)

\* datetime.isoformat(): the digits, followed by the fraction of a second
\* when microsecond is not 0.  A datetime that strptime parsed has
\* microsecond 0; datetime.now() has any.
isoformat(t, microsecond) ==
    IF microsecond = 0 THEN Digits(t, IsoWidth)
    ELSE Append(Digits(t, IsoWidth), microsecond)

\* datetime.fromisoformat() of a text that isoformat(t, 0) wrote
fromisoformat(s) == CHOOSE t \in 0..(DatetimeMax + OneHour) : isoformat(t, 0) = s

\* the text a user types for the datetime t, "%Y-%m-%d %H:%M"
DateText(t) == "date " \o ToString(t)
DateTexts == {DateText(t) : t \in Times}
Inputs == Texts \cup DateTexts

\* datetime.strptime(datetime_input, "%Y-%m-%d %H:%M")
strptime(s) ==
    IF \E t \in Times : DateText(t) = s
    THEN CHOOSE t \in Times : DateText(t) = s
    ELSE ValueError

\* update.effective_user.username: user 1 has one, the others have none
tg_username(u) == IF u = 1 THEN "user1" ELSE ""
username_or_unknown(u) == IF tg_username(u) # "" THEN tg_username(u) ELSE "Unknown"

\* ---- the outcome record of a handler ----
\* op: the handler; text: the message text; branch: the path it took; success: what the operation
\* returned; gw: what became of the calendar call ("none": not made); store:
\* what became of the store write ("none": not attempted); replied: the
\* message to the user was delivered; calls: the calls create_calendar_event
\* made to the calendar and to the store, in the order it made them; rows:
\* the rows a list query returned.
Outcome(op, u, branch, m, success, gw, store, replied) ==
    [op |-> op, user |-> u, text |-> "", branch |-> branch, meeting_id |-> m,
     success |-> success, gw |-> gw, store |-> store, replied |-> replied,
     calls |-> <<>>, rows |-> <<>>]

\* an outcome of handle_meeting_creation, with the text it was given
Advanced(u, text, branch, m, success, gw, store, replied) ==
    [Outcome("advance", u, branch, m, success, gw, store, replied)
        EXCEPT !.text = text]

Init ==
    /\ user_data = [u \in Users |-> <<>>]
    /\ meetings = <<>>
    /\ registrations = <<>>
    /\ remote_events = {}
    /\ gw_seq = 0
    /\ clock = 0
    /\ GOOGLE_CALENDAR_ON \in BOOLEAN
    /\ calendar_service \in {None, "service"}
    /\ (~GOOGLE_CALENDAR_ON => calendar_service = None)
    /\ flow = [u \in Users |-> <<>>]
    /\ registered_once = {}
    /\ last = Outcome("init", 0, "", 0, FALSE, "none", "none", FALSE)

\* ---- create_meeting_command ----
\* lines 168-169 without the assignment of meeting_step
BeginState_KeepsStep(d) == Put(d, "creating_meeting", TRUE)

\* lines 168-169
BeginState(d) ==
    Put(Put(d, "creating_meeting", TRUE), "meeting_step", "title")

\* lines 168-169 on a dict shared by all users instead of context.user_data
create_meeting_command_Shared(u, replied) ==
    /\ user_data' = [v \in Users |-> IF replied THEN BeginState(user_data[v]) ELSE user_data[v]]
    /\ flow' = [flow EXCEPT ![u] = IF replied THEN <<>> ELSE @]
    /\ last' = Outcome("begin", u, IF replied THEN "begun" ELSE "raised", 0,
                       replied, "none", "none", replied)
    /\ UNCHANGED <<meetings, registrations, remote_events, gw_seq, clock,
                   GOOGLE_CALENDAR_ON, calendar_service, registered_once>>

create_meeting_command(u, replied) ==
    /\ user_data' = [user_data EXCEPT ![u] = IF replied THEN BeginState(@) ELSE @]
    /\ flow' = [flow EXCEPT ![u] = IF replied THEN <<>> ELSE @]
    /\ last' = Outcome("begin", u, IF replied THEN "begun" ELSE "raised", 0,
                       replied, "none", "none", replied)
    /\ UNCHANGED <<meetings, registrations, remote_events, gw_seq, clock,
                   GOOGLE_CALENDAR_ON, calendar_service, registered_once>>

\* ---- create_calendar_event ----
\* meetings.id is the rowid: SQLite gives a new row the largest id in the
\* table plus one.
Max(S) == IF S = {} THEN 0 ELSE CHOOSE x \in S : \A y \in S : y <= x
NewId(rows) == Max({rows[i].id : i \in 1..Len(rows)}) + 1

\* line 291 without the timedelta
EndTime_SameAsStart(start_time) == start_time

\* line 291
EndTime(start_time) == start_time + OneHour

LocalEventId(now) == LOCAL_PREFIX \o ToString(now)
RemoteEventId(n) == "evt" \o ToString(n)
HtmlLink(event_id) == "https://calendar/" \o event_id

GatewayAvailable == GOOGLE_CALENDAR_ON /\ calendar_service # None

MeetingRow(id, event_id, creator_id, creator_username, title, description, start_time, end_time, calendar_link) ==
    [id |-> id, event_id |-> event_id, creator_id |-> creator_id,
     creator_username |-> creator_username, title |-> title,
     description |-> description, start_time |-> start_time,
     end_time |-> end_time, calendar_link |-> calendar_link]

\* create_calendar_event with the INSERT of lines 340-351 moved before the
\* calendar call of lines 297-326: the row is written with a local id
create_calendar_event_StoreFirst(title, description, start_time, creator_id, creator_username, gw_ok, store_ok, delay) ==
    IF EndTime(start_time) > DatetimeMax
    THEN [success |-> FALSE, calendar_link |-> None, gw |-> "none",
          store |-> "none", calls |-> <<>>, meetings |-> meetings, id |-> 0,
          remote_events |-> remote_events, gw_seq |-> gw_seq, clock |-> clock]
    ELSE
    LET called  == store_ok /\ GatewayAvailable
        created == called /\ gw_ok
        remote  == RemoteEventId(gw_seq + 1)
        id      == NewId(meetings)
        row     == MeetingRow(id, LocalEventId(clock), creator_id,
                              creator_username, title, description,
                              isoformat(start_time, 0),
                              isoformat(EndTime(start_time), 0), None)
    IN  [success |-> store_ok,
         calendar_link |-> IF created THEN HtmlLink(remote) ELSE None,
         gw |-> IF ~GOOGLE_CALENDAR_ON THEN "disabled"
                ELSE IF calendar_service = None THEN "unconfigured"
                ELSE IF ~called THEN "none"
                ELSE IF gw_ok THEN "ok" ELSE "raised",
         store |-> IF store_ok THEN "ok" ELSE "failed",
         calls |-> IF called THEN <<"INSERT", "events.insert">>
                   ELSE <<"INSERT">>,
         meetings |-> IF store_ok THEN Append(meetings, row) ELSE meetings,
         id |-> IF store_ok THEN id ELSE 0,
         remote_events |-> IF created THEN remote_events \cup {remote}
                           ELSE remote_events,
         gw_seq |-> IF created THEN gw_seq + 1 ELSE gw_seq,
         clock |-> IF called THEN clock + delay ELSE clock]

\* The result of create_calendar_event and the state it leaves.  gw_ok: the
\* insert call returns; store_ok: the INSERT and commit go through; delay:
\* hours the calendar call blocks.
create_calendar_event(title, description, start_time, creator_id, creator_username, gw_ok, store_ok, delay) ==
    IF EndTime(start_time) > DatetimeMax
    THEN \* OverflowError at line 291, caught at line 355
         [success |-> FALSE, calendar_link |-> None, gw |-> "none",
          store |-> "none", calls |-> <<>>, meetings |-> meetings, id |-> 0,
          remote_events |-> remote_events, gw_seq |-> gw_seq, clock |-> clock]
    ELSE
    LET end_time == EndTime(start_time)
        called   == GatewayAvailable
        created  == called /\ gw_ok
        remote   == RemoteEventId(gw_seq + 1)
        now      == IF called THEN clock + delay ELSE clock
        event_id == IF created THEN remote ELSE LocalEventId(now)
        link     == IF created THEN HtmlLink(remote) ELSE None
        gw       == IF ~GOOGLE_CALENDAR_ON THEN "disabled"
                    ELSE IF calendar_service = None THEN "unconfigured"
                    ELSE IF gw_ok THEN "ok" ELSE "raised"
        id       == NewId(meetings)
        calls    == IF called THEN <<"events.insert", "INSERT">>
                    ELSE <<"INSERT">>
        row      == MeetingRow(id, event_id, creator_id,
                               creator_username, title, description,
                               isoformat(start_time, 0),
                               isoformat(end_time, 0), link)
    IN  [success |-> store_ok,
         calendar_link |-> IF store_ok THEN link ELSE None,
         gw |-> gw,
         store |-> IF store_ok THEN "ok" ELSE "failed",
         calls |-> calls,
         meetings |-> IF store_ok THEN Append(meetings, row) ELSE meetings,
         id |-> IF store_ok THEN id ELSE 0,
         remote_events |-> IF created THEN remote_events \cup {remote}
                           ELSE remote_events,
         gw_seq |-> IF created THEN gw_seq + 1 ELSE gw_seq,
         clock |-> now]

\* ---- handle_meeting_creation ----
\* lines 269-275
ResetState(d) ==
    Pop(Pop(Pop(Put(d, "creating_meeting", FALSE), "meeting_step"),
            "meeting_title"), "meeting_description")

\* the early return of line 182 taken after clearing the flow state
Ignored_Resets(u, text) ==
    /\ user_data' = [user_data EXCEPT ![u] = ResetState(@)]
    /\ last' = Advanced(u, text, "ignored", 0, FALSE, "none", "none", FALSE)
    /\ UNCHANGED <<meetings, registrations, remote_events, gw_seq, clock,
                   GOOGLE_CALENDAR_ON, calendar_service, flow,
                   registered_once>>

\* lines 179-182: return, nothing is done
Ignored(u, text) ==
    /\ last' = Advanced(u, text, "ignored", 0, FALSE, "none", "none", FALSE)
    /\ UNCHANGED <<user_data, meetings, registrations, remote_events, gw_seq,
                   clock, GOOGLE_CALENDAR_ON, calendar_service, flow,
                   registered_once>>

\* line 190 as setdefault: a title already in user_data is kept
StoreTitle_KeepsFirst(d, text) ==
    IF "meeting_title" \in DOMAIN d
    THEN Put(d, "meeting_step", "description")
    ELSE Put(Put(d, "meeting_title", text), "meeting_step", "description")

\* lines 190-191
StoreTitle(d, text) ==
    Put(Put(d, "meeting_title", text), "meeting_step", "description")

\* lines 201-202
StoreDescription(d, text) ==
    Put(Put(d, "meeting_description", text), "meeting_step", "datetime")

StepTitle(u, text, replied) ==
    /\ user_data' = [user_data EXCEPT ![u] = StoreTitle(@, text)]
    /\ flow' = [flow EXCEPT ![u] = Append(@, text)]
    /\ last' = Advanced(u, text, "title", 0, TRUE, "none", "none", replied)
    /\ UNCHANGED <<meetings, registrations, remote_events, gw_seq, clock,
                   GOOGLE_CALENDAR_ON, calendar_service, registered_once>>

StepDescription(u, text, replied) ==
    /\ user_data' = [user_data EXCEPT ![u] = StoreDescription(@, text)]
    /\ flow' = [flow EXCEPT ![u] = Append(@, text)]
    /\ last' = Advanced(u, text, "description", 0, TRUE, "none", "none",
                        replied)
    /\ UNCHANGED <<meetings, registrations, remote_events, gw_seq, clock,
                   GOOGLE_CALENDAR_ON, calendar_service, registered_once>>

\* the re-prompt of lines 222-228 and 277-283 after clearing the flow state
Reprompt_Resets(u, text, branch, replied) ==
    /\ user_data' = [user_data EXCEPT ![u] = ResetState(@)]
    /\ last' = Advanced(u, text, branch, 0, FALSE, "none", "none", replied)
    /\ UNCHANGED <<meetings, registrations, remote_events, gw_seq, clock,
                   GOOGLE_CALENDAR_ON, calendar_service, flow,
                   registered_once>>

\* lines 222-228 and 277-283: a message, nothing else
Reprompt(u, text, branch, replied) ==
    /\ last' = Advanced(u, text, branch, 0, FALSE, "none", "none", replied)
    /\ UNCHANGED <<user_data, meetings, registrations, remote_events, gw_seq,
                   clock, GOOGLE_CALENDAR_ON, calendar_service, flow,
                   registered_once>>

\* line 222 with < for <=
NotFuture_Strict(meeting_datetime, now) == meeting_datetime < now

\* line 222: the date is not in the future
NotFuture(meeting_datetime, now) == meeting_datetime <= now

StepDatetime(u, text, gw_ok, store_ok, delay, replied) ==
    LET meeting_datetime == strptime(text) IN
    IF meeting_datetime = ValueError
    THEN Reprompt(u, text, "invalid", replied)
    ELSE IF NotFuture(meeting_datetime, clock)
    THEN Reprompt(u, text, "past", replied)
    ELSE
    LET r == create_calendar_event(user_data[u]["meeting_title"],
                                   user_data[u]["meeting_description"],
                                   meeting_datetime, u,
                                   username_or_unknown(u),
                                   gw_ok, store_ok, delay)
    IN  /\ meetings' = r.meetings
        /\ remote_events' = r.remote_events
        /\ gw_seq' = r.gw_seq
        /\ clock' = r.clock
        \* the reply raising leaves the handler before lines 269-275
        /\ user_data' = [user_data EXCEPT ![u] =
               IF replied THEN ResetState(@) ELSE @]
        /\ flow' = [flow EXCEPT ![u] = IF replied THEN <<>> ELSE @]
        /\ last' = [Advanced(u, text,
                             IF r.success THEN "created" ELSE "failed",
                             r.id, r.success, r.gw, r.store, replied)
                       EXCEPT !.calls = r.calls]
        /\ UNCHANGED <<registrations, GOOGLE_CALENDAR_ON, calendar_service,
                       registered_once>>

handle_meeting_creation(u, text, gw_ok, store_ok, delay, replied) ==
    IF ~Truthy(user_data[u], "creating_meeting")
    THEN Ignored(u, text)
    ELSE LET step == Get(user_data[u], "meeting_step") IN
         CASE step = "title"       -> StepTitle(u, text, replied)
           [] step = "description" -> StepDescription(u, text, replied)
           [] step = "datetime"    ->
                StepDatetime(u, text, gw_ok, store_ok, delay, replied)
           [] OTHER                -> Ignored(u, text)

\* ---- queries ----
\* SELECT * FROM meetings WHERE id = ?  (NoRow: fetchone() returns None)
get_meeting_by_id(meeting_id) ==
    IF \E i \in 1..Len(meetings) : meetings[i].id = meeting_id
    THEN meetings[CHOOSE i \in 1..Len(meetings) : meetings[i].id = meeting_id]
    ELSE NoRow

HasMeeting(meeting_id) == \E i \in 1..Len(meetings) : meetings[i].id = meeting_id

OfMeeting(meeting_id, row) == row.meeting_id = meeting_id

\* SELECT COUNT(*) FROM registrations WHERE meeting_id = ?
get_registration_count(meeting_id) ==
    Cardinality({i \in 1..Len(registrations) :
                    OfMeeting(meeting_id, registrations[i])})

\* ---- get_upcoming_meetings, get_user_meetings ----
\* the WHERE clause of line 595 with >= for >
Upcoming_OrEqual(row, now_text) == ~TextLess(row.start_time, now_text)

\* WHERE start_time > ?  (both sides are text)
Upcoming(row, now_text) == TextLess(now_text, row.start_time)

\* the query of lines 611-615 without its WHERE clause
ByCreator_Any(row, user_id) == TRUE

\* WHERE creator_id = ?
ByCreator(row, user_id) == row.creator_id = user_id

\* ORDER BY start_time ASC over the rows at the positions I: every order of
\* them that ascends by the text of start_time (rows with one start_time
\* come in any order).
OrderByStartTime(I) ==
    LET n == Cardinality(I)
        ascending(q) ==
            /\ \A a, b \in 1..n : a # b => q[a] # q[b]
            /\ \A a, b \in 1..n :
                   a < b => ~TextLess(meetings[q[b]].start_time,
                                      meetings[q[a]].start_time)
    IN  {[k \in 1..n |-> meetings[q[k]]] :
            q \in {q \in [1..n -> I] : ascending(q)}}

\* the results fetchall() can return; microsecond: that of datetime.now()
get_upcoming_meetings(microsecond) ==
    LET now == isoformat(clock, microsecond)
    IN  OrderByStartTime({i \in 1..Len(meetings) : Upcoming(meetings[i], now)})

get_user_meetings(user_id) ==
    OrderByStartTime({i \in 1..Len(meetings) : ByCreator(meetings[i], user_id)})

\* the commands reply with one message per row and change nothing
Listed(op, u, rows) ==
    /\ last' = [Outcome(op, u, "listed", 0, TRUE, "none", "none", TRUE)
                   EXCEPT !.rows = rows]
    /\ UNCHANGED <<user_data, meetings, registrations, remote_events, gw_seq,
                   clock, GOOGLE_CALENDAR_ON, calendar_service, flow,
                   registered_once>>

upcoming_meetings_command(u, microsecond) ==
    \E rows \in get_upcoming_meetings(microsecond) : Listed("upcoming", u, rows)

my_meetings_command(u) ==
    \E rows \in get_user_meetings(u) : Listed("mine", u, rows)

\* ---- get_meeting_registrations, show_meeting_stats ----
\* ORDER BY registered_at ASC over the rows at the positions I: every order
\* of them that ascends by the text of registered_at (rows with one
\* registered_at come in any order)
OrderByRegisteredAt(I) ==
    LET n == Cardinality(I)
        ascending(q) ==
            /\ \A a, b \in 1..n : a # b => q[a] # q[b]
            /\ \A a, b \in 1..n :
                   a < b => ~TextLess(registrations[q[b]].registered_at,
                                      registrations[q[a]].registered_at)
    IN  {[k \in 1..n |-> registrations[q[k]]] :
            q \in {q \in [1..n -> I] : ascending(q)}}

\* the results fetchall() can return
get_meeting_registrations(meeting_id) ==
    OrderByRegisteredAt({i \in 1..Len(registrations) :
                            OfMeeting(meeting_id, registrations[i])})

\* handle_callback_query, data = "stats_<meeting_id>"
show_meeting_stats(u, meeting_id) ==
    /\ IF get_meeting_by_id(meeting_id) = NoRow
       THEN last' = Outcome("stats", u, "notfound", meeting_id, FALSE, "none",
                            "none", TRUE)
       ELSE \E rows \in get_meeting_registrations(meeting_id) :
               last' = [Outcome("stats", u, "shown", meeting_id, TRUE, "none",
                                "none", TRUE) EXCEPT !.rows = rows]
    /\ UNCHANGED <<user_data, meetings, registrations, remote_events, gw_seq,
                   clock, GOOGLE_CALENDAR_ON, calendar_service, flow,
                   registered_once>>

\* ---- register_user_for_meeting ----
\* UNIQUE (meeting_id, user_id) of table registrations
Registered(regs, meeting_id, user_id) ==
    \E i \in 1..Len(regs) :
        regs[i].meeting_id = meeting_id /\ regs[i].user_id = user_id

RegistrationRow(meeting_id, user_id, username, registered_at) ==
    [meeting_id |-> meeting_id, user_id |-> user_id, username |-> username,
     registered_at |-> registered_at]

\* registered_at is not given by the INSERT of lines 668-672: the table
\* fills it in with the time of the insert, as text
CURRENT_TIMESTAMP == isoformat(clock, 0)

\* The connection is opened without PRAGMA foreign_keys, so SQLite does not
\* look the meeting up: the INSERT fails on the UNIQUE constraint only.
register_user_for_meeting(meeting_id, user_id, username, store_ok) ==
    IF ~store_ok
    THEN [success |-> FALSE, store |-> "failed", registrations |-> registrations]
    ELSE IF Registered(registrations, meeting_id, user_id)
    THEN [success |-> FALSE, store |-> "conflict",
          registrations |-> registrations]
    ELSE [success |-> TRUE, store |-> "ok",
          registrations |-> Append(registrations,
              RegistrationRow(meeting_id, user_id, username,
                              CURRENT_TIMESTAMP))]

\* handle_callback_query, data = "register_<meeting_id>"
CallbackRegister(u, meeting_id, store_ok) ==
    LET r == register_user_for_meeting(meeting_id, u, username_or_unknown(u),
                                       store_ok)
    IN  /\ registrations' = r.registrations
        /\ registered_once' = IF r.success
                              THEN registered_once \cup {<<meeting_id, u>>}
                              ELSE registered_once
        /\ last' = Outcome("register", u,
                           IF r.success THEN "registered" ELSE "already",
                           meeting_id, r.success, "none", r.store, TRUE)
        /\ UNCHANGED <<user_data, meetings, remote_events, gw_seq, clock,
                       GOOGLE_CALENDAR_ON, calendar_service, flow>>

\* ---- delete_meeting ----
\* delete_meeting without the comparison of creator_id at line 696
Refused_AbsentOnly(meeting, creator_id) == meeting = NoRow

\* lines 696-698: the meeting is absent or is not creator_id's
Refused(meeting, creator_id) ==
    meeting = NoRow \/ meeting.creator_id # creator_id

\* lines 703-704 without the test of the prefix
DeletesRemote_AnyEvent(event_id) == GatewayAvailable

\* lines 703-704: the event is to be deleted from the calendar
DeletesRemote(event_id) ==
    GatewayAvailable /\ ~startswith(event_id, LOCAL_PREFIX)

\* delete_meeting without the DELETE FROM registrations of lines 729-730
delete_meeting_KeepsRegistrations(meeting_id, creator_id, gw_ok, store_ok) ==
    LET meeting == get_meeting_by_id(meeting_id) IN
    IF Refused(meeting, creator_id)
    THEN [success |-> FALSE, gw |-> "none", store |-> "none",
          meetings |-> meetings, registrations |-> registrations,
          remote_events |-> remote_events]
    ELSE
    LET event_id == meeting.event_id
        called   == DeletesRemote(event_id)
        remote   == IF called /\ gw_ok THEN remote_events \ {event_id}
                    ELSE remote_events
        gw       == IF ~called THEN "none" ELSE IF gw_ok THEN "ok" ELSE "raised"
    IN  IF store_ok
        THEN [success |-> TRUE, gw |-> gw, store |-> "ok",
              meetings |-> SelectSeq(meetings, LAMBDA row : row.id # meeting_id),
              registrations |-> registrations,
              remote_events |-> remote]
        ELSE [success |-> FALSE, gw |-> gw, store |-> "failed",
              meetings |-> meetings, registrations |-> registrations,
              remote_events |-> remote]

\* the calendar call made before the check of lines 696-698
delete_meeting_RemoteFirst(meeting_id, creator_id, gw_ok, store_ok) ==
    LET meeting == get_meeting_by_id(meeting_id)
        called  == meeting # NoRow /\ DeletesRemote(meeting.event_id)
        remote  == IF called /\ gw_ok THEN remote_events \ {meeting.event_id}
                   ELSE remote_events
        gw      == IF ~called THEN "none" ELSE IF gw_ok THEN "ok" ELSE "raised"
    IN  IF Refused(meeting, creator_id)
        THEN [success |-> FALSE, gw |-> gw, store |-> "none",
              meetings |-> meetings, registrations |-> registrations,
              remote_events |-> remote]
        ELSE IF store_ok
        THEN [success |-> TRUE, gw |-> gw, store |-> "ok",
              meetings |-> SelectSeq(meetings, LAMBDA row : row.id # meeting_id),
              registrations |->
                  SelectSeq(registrations,
                            LAMBDA row : ~OfMeeting(meeting_id, row)),
              remote_events |-> remote]
        ELSE [success |-> FALSE, gw |-> gw, store |-> "failed",
              meetings |-> meetings, registrations |-> registrations,
              remote_events |-> remote]

\* DELETE FROM registrations without its WHERE
delete_meeting_AllRegistrations(meeting_id, creator_id, gw_ok, store_ok) ==
    LET meeting == get_meeting_by_id(meeting_id) IN
    IF Refused(meeting, creator_id)
    THEN [success |-> FALSE, gw |-> "none", store |-> "none",
          meetings |-> meetings, registrations |-> registrations,
          remote_events |-> remote_events]
    ELSE
    LET event_id == meeting.event_id
        called   == DeletesRemote(event_id)
        remote   == IF called /\ gw_ok THEN remote_events \ {event_id}
                    ELSE remote_events
        gw       == IF ~called THEN "none" ELSE IF gw_ok THEN "ok" ELSE "raised"
    IN  IF store_ok
        THEN [success |-> TRUE, gw |-> gw, store |-> "ok",
              meetings |-> SelectSeq(meetings, LAMBDA row : row.id # meeting_id),
              registrations |-> <<>>,
              remote_events |-> remote]
        ELSE [success |-> FALSE, gw |-> gw, store |-> "failed",
              meetings |-> meetings, registrations |-> registrations,
              remote_events |-> remote]

delete_meeting(meeting_id, creator_id, gw_ok, store_ok) ==
    LET meeting == get_meeting_by_id(meeting_id) IN
    IF Refused(meeting, creator_id)
    THEN [success |-> FALSE, gw |-> "none", store |-> "none",
          meetings |-> meetings, registrations |-> registrations,
          remote_events |-> remote_events]
    ELSE
    LET event_id == meeting.event_id
        called   == DeletesRemote(event_id)
        remote   == IF called /\ gw_ok THEN remote_events \ {event_id}
                    ELSE remote_events
        gw       == IF ~called THEN "none" ELSE IF gw_ok THEN "ok" ELSE "raised"
    IN  IF store_ok
        THEN [success |-> TRUE, gw |-> gw, store |-> "ok",
              meetings |-> SelectSeq(meetings, LAMBDA row : row.id # meeting_id),
              registrations |->
                  SelectSeq(registrations,
                            LAMBDA row : ~OfMeeting(meeting_id, row)),
              remote_events |-> remote]
        ELSE [success |-> FALSE, gw |-> gw, store |-> "failed",
              meetings |-> meetings, registrations |-> registrations,
              remote_events |-> remote]

\* line 522: the button was pressed by the creator of an existing meeting
Authorized(meeting, user_id) ==
    meeting # NoRow /\ meeting.creator_id = user_id

\* handle_callback_query, data = "delete_<meeting_id>"
CallbackDelete(u, meeting_id, gw_ok, store_ok) ==
    LET meeting == get_meeting_by_id(meeting_id) IN
    IF Authorized(meeting, u)
    THEN LET r == delete_meeting(meeting_id, meeting.creator_id, gw_ok,
                                 store_ok)
         IN  /\ meetings' = r.meetings
             /\ registrations' = r.registrations
             /\ remote_events' = r.remote_events
             /\ last' = Outcome("delete", u,
                                IF r.success THEN "deleted" ELSE "failed",
                                meeting_id, r.success, r.gw, r.store, TRUE)
             /\ UNCHANGED <<user_data, gw_seq, clock, GOOGLE_CALENDAR_ON,
                            calendar_service, flow, registered_once>>
    ELSE /\ last' = Outcome("delete", u, "unauthorized", meeting_id, FALSE,
                            "none", "none", TRUE)
         /\ UNCHANGED <<user_data, meetings, registrations, remote_events,
                        gw_seq, clock, GOOGLE_CALENDAR_ON, calendar_service,
                        flow, registered_once>>

\* ---- the clock ----
Tick ==
    /\ clock < MaxClock
    /\ clock' = clock + 1
    /\ last' = Outcome("tick", 0, "", 0, FALSE, "none", "none", FALSE)
    /\ UNCHANGED <<user_data, meetings, registrations, remote_events, gw_seq,
                   GOOGLE_CALENDAR_ON, calendar_service, flow,
                   registered_once>>

\* ---- what the users send ----
Begin(S) == \E u \in S, replied \in BOOLEAN : create_meeting_command(u, replied)

Active(u) == Truthy(user_data[u], "creating_meeting")
AtStep(u, step) == Active(u) /\ Get(user_data[u], "meeting_step") = step

\* A date is sent at step datetime only; elsewhere it would be taken verbatim
\* like any other text.
Sends(u, text, T) ==
    IF AtStep(u, "datetime")
    THEN text \in DateTexts \cup {"Tea"}
    ELSE text \in T

\* The handler reaches create_calendar_event
Creates(u, text) ==
    /\ AtStep(u, "datetime")
    /\ strptime(text) # ValueError
    /\ ~NotFuture(strptime(text), clock)

\* The outcomes of the calls the handler makes; where a call is not made its
\* outcome is fixed, so that no step is generated twice.
Outcomes(u, text) ==
    IF ~Creates(u, text)
    THEN {[gw_ok |-> TRUE, store_ok |-> TRUE, delay |-> 0, replied |-> TRUE]}
    ELSE IF EndTime(strptime(text)) > DatetimeMax
    THEN [gw_ok : {TRUE}, store_ok : {TRUE}, delay : {0}, replied : BOOLEAN]
    ELSE IF ~GatewayAvailable
    THEN [gw_ok : {TRUE}, store_ok : BOOLEAN, delay : {0}, replied : BOOLEAN]
    ELSE [gw_ok : BOOLEAN, store_ok : BOOLEAN, delay : 0..MaxDelay,
          replied : BOOLEAN]

\* cap: the store hands out the ids 1..cap, the calendar MaxRemote event ids,
\* and the clock stops at MaxClock.
Advance(S, T, cap) ==
    \E u \in S, text \in Inputs :
        /\ Sends(u, text, T)
        /\ \E e \in Outcomes(u, text) :
               handle_meeting_creation(u, text, e.gw_ok, e.store_ok, e.delay,
                                       e.replied)
        /\ \A i \in 1..Len(meetings') : meetings'[i].id <= cap
        /\ gw_seq' <= MaxRemote
        /\ clock' <= MaxClock

Register(S, M) ==
    \E u \in S, meeting_id \in M, store_ok \in BOOLEAN :
        CallbackRegister(u, meeting_id, store_ok)

Delete(S, M) ==
    \E u \in S, meeting_id \in M, gw_ok \in BOOLEAN, store_ok \in BOOLEAN :
        /\ (gw_ok = FALSE =>
               /\ Authorized(get_meeting_by_id(meeting_id), u)
               /\ DeletesRemote(get_meeting_by_id(meeting_id).event_id))
        /\ (store_ok = FALSE => Authorized(get_meeting_by_id(meeting_id), u))
        /\ CallbackDelete(u, meeting_id, gw_ok, store_ok)

ListUpcoming(S) ==
    \E u \in S, microsecond \in 0..1 : upcoming_meetings_command(u, microsecond)

ListMine(S) == \E u \in S : my_meetings_command(u)

\* One user creates meetings with one title; all users register, delete and
\* list.
Next ==
    \/ Begin(Creators)
    \/ Advance(Creators, OneText, MaxId)
    \/ Register(Users, MeetingIds)
    \/ Delete(Users, MeetingIds)
    \/ ListUpcoming(Users)
    \/ ListMine(Users)
    \/ Tick

Spec == Init /\ [][Next]_vars

\* The dialogue with two texts, so that a text of an earlier flow differs
\* from the one of the current flow.
NextFlow ==
    \/ Begin(Creators)
    \/ Advance(Creators, Texts, MaxId)
    \/ Tick

SpecFlow == Init /\ [][NextFlow]_vars

\* Every user creates meetings, up to MaxMeetings of them in the store, and
\* lists them.  The toggle is on as in line 25 and service-account-key.json
\* is missing (lines 87-92), so every event id is a local one.
InitStore == Init /\ GOOGLE_CALENDAR_ON /\ calendar_service = None

NextStore ==
    \/ Begin(Users)
    \/ Advance(Users, OneText, MaxMeetings)
    \/ ListUpcoming(Users)
    \/ ListMine(Users)
    \/ Tick

SpecStore == InitStore /\ [][NextStore]_vars

\* One user creates a meeting; all users register for it and look at its
\* roster.  The calendar is not configured.
Stats(S, M) == \E u \in S, meeting_id \in M : show_meeting_stats(u, meeting_id)

NextRoster ==
    \/ Begin(Creators)
    \/ Advance(Creators, OneText, MaxId)
    \/ Register(Users, MeetingIds)
    \/ Stats(Users, MeetingIds)
    \/ Tick

SpecRoster == InitStore /\ [][NextRoster]_vars

\* One user creates up to MaxMeetings meetings and deletes them; the other
\* users register for them.  The calendar is not configured.
NextTwo ==
    \/ Begin(Creators)
    \/ Advance(Creators, OneText, MaxMeetings)
    \/ Register(Users \ Creators, 1..MaxMeetings)
    \/ Delete(Users, 1..MaxMeetings)
    \/ Tick

SpecTwo == InitStore /\ [][NextTwo]_vars

\* Two users in the dialogue at once, each with a text of their own, so that
\* the draft of one differs from the draft of the other.
NextUsers ==
    \/ Begin(Users)
    \/ Advance({1}, {"Book Club"}, MaxMeetings)
    \/ Advance(Users \ {1}, OneText, MaxMeetings)
    \/ Tick

SpecUsers == InitStore /\ [][NextUsers]_vars

(***************************************************************************)
(* The claims.  A step of a handler is told by the outcome record it       *)
(* leaves in last'; unprimed variables are the state the handler found.    *)
(***************************************************************************)
LastRow(rows) == rows[Len(rows)]

\* handle_meeting_creation was given a future date at step datetime and
\* called create_calendar_event
CreateStep == last'.op = "advance" /\ Creates(last'.user, last'.text)

\* the state the step found had no calendar, or the calendar call raised
GatewayFailed == ~GatewayAvailable \/ last'.gw = "raised"

\* C1: when the calendar is disabled, not configured or raises, and the store
\* works, createMeeting succeeds, persists exactly one meeting whose event_id
\* carries the prefix local_event_, and the calendar link is null.
C1_GatewayFailureStillSucceeds ==
    [][(CreateStep /\ GatewayFailed /\ last'.store # "failed")
          => /\ last'.success
             /\ Len(meetings') = Len(meetings) + 1
             /\ SubSeq(meetings', 1, Len(meetings)) = meetings
             /\ startswith(LastRow(meetings').event_id, LOCAL_PREFIX)
             /\ LastRow(meetings').calendar_link = None]_vars

\* C2: createMeeting reports failure if and only if the store write fails,
\* and a failed createMeeting adds no meeting.
C2_FailureIffStoreFails ==
    [][CreateStep
          => /\ (~last'.success) <=> (last'.store = "failed")
             /\ (~last'.success) => meetings' = meetings]_vars

\* ---- C3 ----
NoDuplicateRegistration ==
    \A i, j \in 1..Len(registrations) :
        (/\ registrations[i].meeting_id = registrations[j].meeting_id
         /\ registrations[i].user_id = registrations[j].user_id) => i = j

RegisterStep == last'.op = "register"

\* C3: after any sequence of register, createMeeting and deleteMeeting, once
\* register has answered registered for a pair (meeting id, user id), every
\* later register for the pair answers alreadyRegistered and leaves the
\* count; a register for a pair not yet registered answers registered.
C3_RegisteredOnceForEver ==
    [][(RegisterStep /\ last'.store # "failed")
          => IF <<last'.meeting_id, last'.user>> \in registered_once
             THEN /\ ~last'.success
                  /\ registrations' = registrations
             ELSE last'.success]_vars

\* The part of C3 that holds: at most one registration per (meeting id,
\* user id) is in the store; a register for a pair whose registration is in
\* the store answers alreadyRegistered and leaves the table as it is; a
\* register for a pair with no registration in the store (none yet, or
\* removed by delete_meeting) answers registered when the store write
\* succeeds and adds exactly that registration, whether or not the meeting
\* exists.
AtMostOneRegistration ==
    /\ []NoDuplicateRegistration
    /\ [][RegisterStep
            => LET m == last'.meeting_id
                   u == last'.user
               IN  IF Registered(registrations, m, u)
                   THEN /\ ~last'.success
                        /\ registrations' = registrations
                   ELSE IF last'.store = "failed"
                   THEN /\ ~last'.success
                        /\ registrations' = registrations
                   ELSE /\ last'.success
                        /\ Len(registrations') = Len(registrations) + 1
                        /\ SubSeq(registrations', 1, Len(registrations))
                              = registrations
                        /\ LastRow(registrations').meeting_id = m
                        /\ LastRow(registrations').user_id = u]_vars

\* a second register of a registered pair was answered alreadyRegistered
RegisteredTwice ==
    /\ last.op = "register"
    /\ last.store = "conflict"
    /\ ~last.success
    /\ get_registration_count(last.meeting_id) = 1

\* ---- C4 ----
DeleteStep == last'.op = "delete"

\* C4: a delete of an existing meeting asked for by a user who is not its
\* creator fails and leaves both tables as they are, through the handler and
\* through delete_meeting itself.
C4_NonCreatorDeleteRefused ==
    /\ [](\A m \in MeetingIds, c \in Users, gw_ok \in BOOLEAN, store_ok \in BOOLEAN :
            (HasMeeting(m) /\ get_meeting_by_id(m).creator_id # c)
               => LET r == delete_meeting(m, c, gw_ok, store_ok)
                  IN  /\ ~r.success
                      /\ r.meetings = meetings
                      /\ r.registrations = registrations
                      /\ r.remote_events = remote_events)
    /\ [][(/\ DeleteStep
            /\ HasMeeting(last'.meeting_id)
            /\ get_meeting_by_id(last'.meeting_id).creator_id # last'.user)
            => /\ ~last'.success
               /\ meetings' = meetings
               /\ registrations' = registrations
               /\ remote_events' = remote_events]_vars

\* a user who is not the creator asked to delete a meeting that has a
\* registration
C4_Witness ==
    /\ last.op = "delete"
    /\ HasMeeting(last.meeting_id)
    /\ get_meeting_by_id(last.meeting_id).creator_id # last.user
    /\ get_registration_count(last.meeting_id) >= 1

\* ---- C5 ----
\* SELECT * FROM registrations WHERE meeting_id = ? ORDER BY registered_at:
\* the rows of the meeting
RowsFor(regs, meeting_id) ==
    {i \in 1..Len(regs) : OfMeeting(meeting_id, regs[i])}

\* C5: a delete by the creator, with the store working, leaves no meeting
\* with that id and no registration of it, whatever the calendar did.
C5_CreatorDeleteCascades ==
    [][(/\ DeleteStep
        /\ HasMeeting(last'.meeting_id)
        /\ get_meeting_by_id(last'.meeting_id).creator_id = last'.user
        /\ last'.store # "failed")
          => /\ last'.success
             /\ ~\E i \in 1..Len(meetings') :
                    meetings'[i].id = last'.meeting_id
             /\ RowsFor(registrations', last'.meeting_id) = {}]_vars

\* the creator deleted a meeting although the calendar call raised, while
\* users had registered for it
C5_Witness ==
    /\ last.op = "delete"
    /\ last.success
    /\ last.gw = "raised"
    /\ registered_once # {}
    /\ registrations = <<>>

\* ---- C6 ----
\* no flow is active and no step and no draft are kept
Cleared(d) ==
    /\ ~Truthy(d, "creating_meeting")
    /\ DOMAIN d \cap {"meeting_step", "meeting_title", "meeting_description"}
         = {}

\* C6: a date that parses and lies in the future clears the conversation
\* state of the user on every path out of the handler, whether createMeeting
\* succeeded or not and whether the confirmation was delivered or not.
C6_StateClearedOnEveryPath ==
    [][CreateStep => Cleared(user_data'[last'.user])]_vars

\* ---- C7 ----
\* C7: at step datetime a text that does not parse, or a date not strictly
\* after the clock, creates no meeting, makes no calendar call and leaves
\* the conversation state (flag, step, draft) as it was.
C7_RejectedDateChangesNothing ==
    [][(/\ last'.op = "advance"
        /\ AtStep(last'.user, "datetime")
        /\ \/ strptime(last'.text) = ValueError
           \/ strptime(last'.text) <= clock)
          => /\ UNCHANGED <<user_data, meetings, registrations, remote_events,
                            gw_seq>>
             /\ last'.gw = "none"
             /\ last'.store = "none"
             /\ Get(user_data'[last'.user], "meeting_step") = "datetime"]_vars

\* a date equal to the clock was sent at step datetime
C7_Witness ==
    /\ last.op = "advance"
    /\ AtStep(last.user, "datetime")
    /\ strptime(last.text) = clock
    /\ last.branch = "past"

\* ---- C8 ----
\* the draft in user_data is what was typed since the flow began
DraftIsOfThisFlow(u) ==
    LET d == user_data[u]
        step == Get(d, "meeting_step")
    IN  Truthy(d, "creating_meeting") =>
           CASE step = "title" -> flow[u] = <<>>
             [] step = "description" ->
                    flow[u] = <<Get(d, "meeting_title")>>
             [] step = "datetime" ->
                    flow[u] = <<Get(d, "meeting_title"),
                                Get(d, "meeting_description")>>
             [] OTHER -> FALSE

\* C8: after beginCreation every input moves the step on by one, title to
\* description to datetime, and the meeting that is created carries the
\* title and the description typed in this flow and the parsed start time.
C8_MeetingCarriesThisFlowsDraft ==
    /\ [](\A u \in Users : DraftIsOfThisFlow(u))
    /\ [][last'.op = "advance" =>
            LET u == last'.user
                d == user_data'[u]
            IN  /\ AtStep(u, "title") =>
                      /\ Get(d, "meeting_step") = "description"
                      /\ Get(d, "meeting_title") = last'.text
                /\ AtStep(u, "description") =>
                      /\ Get(d, "meeting_step") = "datetime"
                      /\ Get(d, "meeting_description") = last'.text
                /\ (CreateStep /\ last'.store = "ok") =>
                      /\ Len(meetings') = Len(meetings) + 1
                      /\ LastRow(meetings').title = flow[u][1]
                      /\ LastRow(meetings').description = flow[u][2]
                      /\ LastRow(meetings').start_time
                           = isoformat(strptime(last'.text), 0)
                      /\ LastRow(meetings').creator_id = u]_vars

\* a meeting was created with the title and the description of its flow
C8_Witness ==
    /\ last.op = "advance"
    /\ last.branch = "created"
    /\ Len(meetings) = 1
    /\ meetings[1].title = "Book Club"
    /\ meetings[1].description = "Tea"
    /\ meetings[1].start_time = isoformat(strptime(last.text), 0)

\* ---- C9 ----
\* C9 as stated: create_meeting_command leaves an active flow at step title
\* with no draft title and no draft description.
C9_BeginClearsDraft ==
    (last.op = "begin" /\ last.branch = "begun") =>
        LET d == user_data[last.user]
        IN  /\ Truthy(d, "creating_meeting")
            /\ Get(d, "meeting_step") = "title"
            /\ "meeting_title" \notin DOMAIN d
            /\ "meeting_description" \notin DOMAIN d

\* C9 as amended: create_meeting_command, once its prompt is delivered,
\* leaves an active flow at step title; a draft title or description that an
\* earlier flow stored stays in the state as it was.  When the prompt is not
\* delivered the state is left as it was.
C9_BeginKeepsDraft ==
    [][last'.op = "begin" =>
          LET d == user_data[last'.user]
              e == user_data'[last'.user]
          IN  IF last'.branch = "begun"
              THEN /\ Truthy(e, "creating_meeting")
                   /\ Get(e, "meeting_step") = "title"
                   /\ Get(e, "meeting_title") = Get(d, "meeting_title")
                   /\ Get(e, "meeting_description")
                         = Get(d, "meeting_description")
              ELSE e = d]_vars

\* a flow was begun over a draft that an earlier flow had stored
C9_Witness ==
    /\ last.op = "begin"
    /\ last.branch = "begun"
    /\ Get(user_data[last.user], "meeting_step") = "title"
    /\ Get(user_data[last.user], "meeting_title") = "Book Club"
    /\ Get(user_data[last.user], "meeting_description") = "Tea"

\* ---- C10 ----
\* C10: handle_meeting_creation for a user with no active flow leaves the
\* conversation state, the store and the calendar as they were, for any text.
C10_NoFlowNoChange ==
    [][(last'.op = "advance" /\ ~Active(last'.user))
          => /\ UNCHANGED <<user_data, meetings, registrations, remote_events,
                            gw_seq, clock, GOOGLE_CALENDAR_ON,
                            calendar_service, flow>>
             /\ last'.gw = "none"
             /\ last'.store = "none"]_vars

\* a text was sent by a user whose flow had ended, with a meeting in the store
C10_Witness ==
    /\ last.op = "advance"
    /\ last.branch = "ignored"
    /\ "creating_meeting" \in DOMAIN user_data[last.user]
    /\ ~Active(last.user)
    /\ Len(meetings) = 1

\* ---- C11 ----
\* C11: register tells a store fault from a uniqueness violation: a user
\* whose registration failed for a store fault is never answered that they
\* are already registered.
C11_StoreFaultIsNotAlreadyRegistered ==
    [][(RegisterStep /\ last'.store = "failed")
          => last'.branch # "already"]_vars

\* ---- C12 ----
\* C12: in every reachable state every registration row refers to a meeting
\* that is in the store.
C12_NoOrphanRegistration ==
    \A i \in 1..Len(registrations) : HasMeeting(registrations[i].meeting_id)

\* ---- C13 ----
\* rows holds each of the stored meetings that satisfies Wanted once and
\* nothing else, ascending by start time
ExactlyAscending(rows, Wanted) ==
    /\ \A k \in 1..Len(rows) : \E i \in Wanted : rows[k] = meetings[i]
    /\ \A i \in Wanted : \E k \in 1..Len(rows) : rows[k] = meetings[i]
    /\ Len(rows) = Cardinality(Wanted)
    /\ \A a, b \in 1..Len(rows) :
           a < b => fromisoformat(rows[a].start_time)
                       <= fromisoformat(rows[b].start_time)

\* C13: get_upcoming_meetings returns exactly the stored meetings whose start
\* time is strictly after the clock, ascending by start time; a meeting that
\* starts at the clock or before it is left out.
C13_UpcomingExactlyFuture ==
    [][last'.op = "upcoming" =>
          ExactlyAscending(last'.rows,
              {i \in 1..Len(meetings) :
                   fromisoformat(meetings[i].start_time) > clock})]_vars

\* the list left out a meeting that starts at the clock and kept a later one
C13_Witness ==
    /\ last.op = "upcoming"
    /\ Len(meetings) = 2
    /\ Len(last.rows) = 1
    /\ \E i \in 1..2 : fromisoformat(meetings[i].start_time) = clock

\* ---- C14 ----
\* C14: get_user_meetings returns exactly the stored meetings of the creator
\* asked for, past ones included, none of another creator, ascending by
\* start time.
C14_MineExactlyOwn ==
    [][last'.op = "mine" =>
          ExactlyAscending(last'.rows,
              {i \in 1..Len(meetings) :
                   meetings[i].creator_id = last'.user})]_vars

\* the list of a creator held their two meetings, the later one inserted
\* first and the earlier one in the past
C14_Witness ==
    /\ last.op = "mine"
    /\ Len(last.rows) = 2
    /\ last.rows[1] = meetings[2]
    /\ fromisoformat(last.rows[1].start_time) <= clock

\* ---- C15 ----
\* C15: every meeting in the store ends one hour after it starts, whether
\* its event id came from the calendar or is a local one.
C15_EndIsStartPlusOneHour ==
    \A i \in 1..Len(meetings) :
        fromisoformat(meetings[i].end_time)
            = fromisoformat(meetings[i].start_time) + OneHour

\* a meeting with an event id of the calendar ends at the last datetime
C15_Witness ==
    /\ Len(meetings) = 1
    /\ meetings[1].event_id \in remote_events
    /\ fromisoformat(meetings[1].end_time) = DatetimeMax

\* ---- C16 ----
\* C16: a delete by the creator calls the calendar exactly when the calendar
\* is enabled and available and the event id has no local prefix; when that
\* call raises and the store works, the meeting and its registrations are
\* deleted all the same and the delete succeeds.
C16_RemoteDeleteIffRemoteEvent ==
    [][(/\ DeleteStep
        /\ HasMeeting(last'.meeting_id)
        /\ get_meeting_by_id(last'.meeting_id).creator_id = last'.user)
          => LET event_id == get_meeting_by_id(last'.meeting_id).event_id
             IN  /\ last'.gw # "none"
                      <=> /\ GOOGLE_CALENDAR_ON
                          /\ calendar_service # None
                          /\ ~startswith(event_id, LOCAL_PREFIX)
                 /\ (last'.gw = "ok") => event_id \notin remote_events'
                 /\ (last'.gw = "raised" /\ last'.store = "ok")
                       => /\ last'.success
                          /\ ~\E i \in 1..Len(meetings') :
                                 meetings'[i].id = last'.meeting_id
                          /\ RowsFor(registrations', last'.meeting_id) = {}
                          /\ remote_events' = remote_events]_vars

\* the calendar refused to delete the event of a meeting, which was deleted
\* from the store; the event is still in the calendar
C16_Witness ==
    /\ last.op = "delete"
    /\ last.gw = "raised"
    /\ last.success
    /\ meetings = <<>>
    /\ remote_events # {}

\* ---- C17 ----
\* C17: any two meetings in the store with local event ids have different
\* event ids.
C17_LocalEventIdsUnique ==
    \A i, j \in 1..Len(meetings) :
        (/\ i # j
         /\ startswith(meetings[i].event_id, LOCAL_PREFIX)
         /\ startswith(meetings[j].event_id, LOCAL_PREFIX))
           => meetings[i].event_id # meetings[j].event_id

\* ---- C18 ----
\* C18: a meeting starts strictly after the clock time at which its row is
\* written, also when the calendar call before the write took time.
C18_StartAfterWrite ==
    [][(CreateStep /\ last'.store = "ok")
          => fromisoformat(LastRow(meetings').start_time) > clock']_vars

\* ---- C19 ----
\* C19: within one create_calendar_event the store write comes after the
\* calendar call has returned or raised and no calendar call follows it:
\* at most one calendar call is made, the row written carries what the call
\* gave (the event id and link of the calendar, or a local id stamped with
\* the clock after the call and no link), and an event the calendar created
\* stays when the write fails.
C19_StoreWriteAfterGateway ==
    [][CreateStep =>
          LET calls == last'.calls
              row == LastRow(meetings')
          IN  /\ \A a, b \in 1..Len(calls) :
                     (calls[a] = "events.insert" /\ calls[b] = "INSERT")
                        => a < b
              /\ Cardinality({a \in 1..Len(calls) :
                                  calls[a] = "events.insert"}) <= 1
              /\ (last'.gw \in {"ok", "raised"})
                    <=> \E a \in 1..Len(calls) : calls[a] = "events.insert"
              /\ (last'.gw = "ok")
                    => /\ gw_seq' = gw_seq + 1
                       /\ remote_events'
                             = remote_events \cup {RemoteEventId(gw_seq')}
              /\ (last'.gw # "ok")
                    => gw_seq' = gw_seq /\ remote_events' = remote_events
              /\ (last'.store = "ok")
                    => IF last'.gw = "ok"
                       THEN /\ row.event_id = RemoteEventId(gw_seq')
                            /\ row.calendar_link = HtmlLink(row.event_id)
                       ELSE /\ row.event_id = LocalEventId(clock')
                            /\ row.calendar_link = None]_vars

\* the calendar created the event and the row written after it carries the
\* event's id and link
C19_Witness ==
    /\ last.op = "advance"
    /\ last.branch = "created"
    /\ last.gw = "ok"
    /\ last.calls = <<"events.insert", "INSERT">>
    /\ Len(meetings) = 1
    /\ meetings[1].event_id \in remote_events
    /\ meetings[1].calendar_link = HtmlLink(meetings[1].event_id)

\* ---- C20 ----
\* C20: the flow of a user stops being active only in a step of
\* handle_meeting_creation for that user with a date that parses and is in
\* the future; a create_meeting_command in an active flow leaves it active
\* at step title.
C20_FlowEndsOnlyByFutureDate ==
    [][/\ \A u \in Users :
             (Active(u) /\ ~Truthy(user_data'[u], "creating_meeting"))
                => /\ last'.op = "advance"
                   /\ last'.user = u
                   /\ Creates(u, last'.text)
       /\ (last'.op = "begin" /\ last'.branch = "begun")
             => /\ Truthy(user_data'[last'.user], "creating_meeting")
                /\ Get(user_data'[last'.user], "meeting_step") = "title"]_vars

\* another user registered while a flow is active at step datetime
C20_Witness ==
    /\ last.op = "register"
    /\ last.success
    /\ \E u \in Users : u # last.user /\ AtStep(u, "datetime")

\* ---- C21 ----
\* C21: the roster of a meeting lists its registrations in the order in which
\* the registers succeeded, also when registrations were made at one reading
\* of the clock.
C21_RosterInRegistrationOrder ==
    [][(last'.op = "stats" /\ last'.branch = "shown")
          => last'.rows
                = SelectSeq(registrations,
                            LAMBDA row : OfMeeting(last'.meeting_id, row))]_vars

\* ---- C22 ----
\* C22: a delete of a meeting that is absent, or asked for by a user who is
\* not its creator, makes no calendar call and no store write, through
\* delete_meeting itself and through the handler: the calendar keeps every
\* event.
C22_RefusedDeleteCallsNothing ==
    /\ [](\A m \in MeetingIds, c \in Users, gw_ok \in BOOLEAN, store_ok \in BOOLEAN :
            (~HasMeeting(m) \/ get_meeting_by_id(m).creator_id # c)
               => LET r == delete_meeting(m, c, gw_ok, store_ok)
                  IN  /\ r.gw = "none"
                      /\ r.store = "none"
                      /\ r.remote_events = remote_events)
    /\ [][(/\ DeleteStep
            /\ \/ ~HasMeeting(last'.meeting_id)
               \/ get_meeting_by_id(last'.meeting_id).creator_id # last'.user)
            => /\ last'.gw = "none"
               /\ last'.store = "none"
               /\ remote_events' = remote_events]_vars

\* a user who is not the creator asked to delete a meeting whose event is in
\* the calendar
C22_Witness ==
    /\ last.op = "delete"
    /\ last.branch = "unauthorized"
    /\ HasMeeting(last.meeting_id)
    /\ get_meeting_by_id(last.meeting_id).creator_id # last.user
    /\ get_meeting_by_id(last.meeting_id).event_id \in remote_events

\* ---- C23 ----
\* the meetings other than meeting_id, and the registrations of other
\* meetings, in the order of the table
OtherMeetings(rows, meeting_id) ==
    SelectSeq(rows, LAMBDA row : row.id # meeting_id)

OtherRegistrations(rows, meeting_id) ==
    SelectSeq(rows, LAMBDA row : ~OfMeeting(meeting_id, row))

\* C23: in every step each stored meeting stays in the table with the same
\* fields unless the step is a successful delete of that meeting; a register
\* for m leaves the meetings table as it is and the registrations of the
\* other meetings as they are; a delete of m leaves the other meetings and
\* their registrations as they are.
C23_OnlyDeleteTouchesAMeeting ==
    [][/\ \A i \in 1..Len(meetings) :
             \/ \E j \in 1..Len(meetings') : meetings'[j] = meetings[i]
             \/ /\ last'.op = "delete"
                /\ last'.success
                /\ last'.meeting_id = meetings[i].id
       /\ \A i \in 1..Len(meetings), j \in 1..Len(meetings') :
             meetings'[j].id = meetings[i].id => meetings'[j] = meetings[i]
       /\ last'.op = "register"
             => /\ meetings' = meetings
                /\ OtherRegistrations(registrations', last'.meeting_id)
                      = OtherRegistrations(registrations, last'.meeting_id)
       /\ last'.op = "delete"
             => /\ OtherMeetings(meetings', last'.meeting_id)
                      = OtherMeetings(meetings, last'.meeting_id)
                /\ OtherRegistrations(registrations', last'.meeting_id)
                      = OtherRegistrations(registrations, last'.meeting_id)]_vars

\* a meeting was deleted by its creator while another meeting, which has a
\* registration, is in the store
C23_Witness ==
    /\ last.op = "delete"
    /\ last.success
    /\ Len(meetings) = 1
    /\ meetings[1].id # last.meeting_id
    /\ get_registration_count(meetings[1].id) >= 1

\* ---- C24 ----
\* C24: a step of create_meeting_command or handle_meeting_creation for one
\* user leaves the user_data of every other user as it is, and a meeting
\* created in a step of a user has that user as creator, that user's name,
\* and the title and description of that user's user_data.
C24_UserDataIsPerUser ==
    [][/\ last'.op \in {"begin", "advance"}
             => \A v \in Users \ {last'.user} : user_data'[v] = user_data[v]
       /\ (last'.op = "advance" /\ last'.store = "ok")
             => LET u == last'.user
                    row == meetings'[Len(meetings')]
                IN  /\ Len(meetings') = Len(meetings) + 1
                    /\ row.creator_id = u
                    /\ row.creator_username = username_or_unknown(u)
                    /\ row.title = Get(user_data[u], "meeting_title")
                    /\ row.description = Get(user_data[u], "meeting_description")]_vars

\* a user completed a meeting while another user's flow, holding another
\* title, is at step datetime and stays there
C24_Witness ==
    /\ last.op = "advance"
    /\ last.branch = "created"
    /\ meetings # <<>>
    /\ meetings[Len(meetings)].creator_id = last.user
    /\ \E v \in Users \ {last.user} :
          /\ AtStep(v, "datetime")
          /\ Get(user_data[v], "meeting_title") # meetings[Len(meetings)].title

\* ---- C25 ----
\* C25: a create_calendar_event that returns False leaves the calendar with
\* the events it had, and every event in the calendar is the event of a
\* meeting in the store unless a delete removed that meeting.
C25_FailedCreateLeavesNoRemoteEvent ==
    [][/\ (CreateStep /\ ~last'.success) => remote_events' = remote_events
       /\ last'.op # "delete"
             => \A e \in remote_events' :
                   \/ e \in remote_events
                   \/ \E i \in 1..Len(meetings') : meetings'[i].event_id = e]_vars

\* ---- C26 ----
\* C26: the text a user sends next after the date that created a meeting
\* creates no other meeting, and a meeting is only written in a step of a
\* flow that is at step datetime with a title and a description stored.
C26_OneMeetingPerBegin ==
    [][/\ (/\ last.op = "advance"
           /\ last.store = "ok"
           /\ last'.op = "advance"
           /\ last'.user = last.user)
             => /\ last'.store # "ok"
                /\ meetings' = meetings
       /\ (last'.op = "advance" /\ last'.store = "ok")
             => /\ AtStep(last'.user, "datetime")
                /\ "meeting_title" \in DOMAIN user_data[last'.user]
                /\ "meeting_description" \in DOMAIN user_data[last'.user]]_vars

\* ---- C27 ----
\* C27: just after create_calendar_event has written a meeting, no row of
\* registrations carries the id of that meeting, whatever registers and
\* deletes came before.
C27_NewMeetingHasNoRegistration ==
    [][(CreateStep /\ last'.store = "ok")
          => RowsFor(registrations', LastRow(meetings').id) = {}]_vars
====
